---- MODULE Spec2Model ----
(***************************************************************************)
(* Kalpa Raycast extension: the token guard (utils/auth.ts), the resilient *)
(* request pipeline of KalpaClient (utils/kalpa-client.ts) and the         *)
(* aggregation hook useAllLinks (hooks/useKalpa.ts).                       *)
(***************************************************************************)
EXTENDS Integers, Sequences, FiniteSets, TLC

(***************************************************************************)
(* Bounds of the model.                                                    *)
(***************************************************************************)
\* longest preference string, in symbols
MaxTokLen == 3
\* largest exp claim (Unix seconds) a sample token carries
MaxExp == 2
\* the clock runs from 0 to MaxTicks half-seconds
MaxTicks == 3

(***************************************************************************)
(* Program constants (kalpa-client.ts).                                    *)
(***************************************************************************)
DEFAULT_TIMEOUT == 5000
DEFAULT_RETRIES == 3
BASE_BACKOFF_MS == 300
CONVEX_URL == "https://convex.usekalpa.com"
KALPA_APP_URL == "https://usekalpa.com"

(***************************************************************************)
(* JavaScript values.                                                      *)
(***************************************************************************)
JNull == [t |-> "null"]
JUndefined == [t |-> "undefined"]
JStr(s) == [t |-> "string", s |-> s]
JNum(n) == [t |-> "number", n |-> n]
JBool(b) == [t |-> "boolean", b |-> b]
JObj(p) == [t |-> "object", props |-> p]

\* JavaScript truthiness, as `!x` and `a || b` use it
Truthy(v) ==
  CASE v.t = "null" -> FALSE
    [] v.t = "undefined" -> FALSE
    [] v.t = "boolean" -> v.b
    [] v.t = "number" -> v.n # 0
    [] v.t = "string" -> Len(v.s) > 0
    [] OTHER -> TRUE

(***************************************************************************)
(* Strings of the credential preference.  A string is a sequence of        *)
(* symbols: a blank, a dot, or a chunk of base64url characters standing    *)
(* for the text it decodes to.  A text is the serialisation of a JSON      *)
(* value, or raw characters that are no JSON.                              *)
(***************************************************************************)
SP == [ch |-> "space"]
DOT == [ch |-> "dot"]
B64(text) == [ch |-> "b64", text |-> text]

JsonText(v) == [kind |-> "json", val |-> v]
RawText(s) == [kind |-> "raw", s |-> s]
EmptyText == RawText(<<>>)
\* two texts one after the other: two JSON documents in a row are no JSON
CatText(a, b) ==
  IF a = EmptyText THEN b ELSE IF b = EmptyText THEN a ELSE RawText(<<"concat">>)

SampleTexts ==
  { RawText(<<"%junk%">>),
    JsonText(JNull),
    JsonText(JBool(TRUE)),
    JsonText(JObj([alg |-> JStr(<<"RS256">>)])),
    JsonText(JObj([exp |-> JStr(<<"soon">>)])) }
  \cup { JsonText(JObj([exp |-> JNum(k)])) : k \in 0..MaxExp }

Symbols == {SP, DOT} \cup { B64(x) : x \in SampleTexts }

SeqsUpTo(S, n) == UNION { [1..k -> S] : k \in 0..n }

\* every preference string of the bound
Strings == SeqsUpTo(Symbols, MaxTokLen)

(***************************************************************************)
(* String.prototype.trim and String.prototype.split(".")                   *)
(***************************************************************************)
RECURSIVE TrimStart(_)
TrimStart(s) ==
  IF s # <<>> /\ Head(s) = SP THEN TrimStart(Tail(s)) ELSE s

RECURSIVE TrimEnd(_)
TrimEnd(s) ==
  IF s # <<>> /\ s[Len(s)] = SP THEN TrimEnd(SubSeq(s, 1, Len(s) - 1)) ELSE s

Trim(s) == TrimEnd(TrimStart(s))

\* split(".") : the segments between the dots; "" gives one empty segment
RECURSIVE SplitDot(_, _)
SplitDot(s, cur) ==
  IF s = <<>> THEN <<cur>>
  ELSE IF Head(s) = DOT THEN <<cur>> \o SplitDot(Tail(s), <<>>)
  ELSE SplitDot(Tail(s), Append(cur, Head(s)))

Split(s) == SplitDot(s, <<>>)

(***************************************************************************)
(* utils/auth.ts                                                           *)
(***************************************************************************)
\* the preferences object: apiToken may be missing altogether
NoPrefs == [k \in {} |-> <<>>]
PrefsOf(str) == [apiToken |-> str]

\* getApiToken(): the trimmed preference, or null when missing or blank
getApiToken(p) ==
  IF "apiToken" \notin DOMAIN p THEN JNull
  ELSE LET token == Trim(p.apiToken)
       IN IF Len(token) > 0 THEN JStr(token) ELSE JNull

\* Buffer.from(base64, "base64").toString("utf8"): blanks are skipped, the
\* chunks decode to their texts, one after the other
RECURSIVE base64UrlDecode(_)
base64UrlDecode(segment) ==
  IF segment = <<>> THEN EmptyText
  ELSE IF Head(segment).ch = "b64"
       THEN CatText(Head(segment).text, base64UrlDecode(Tail(segment)))
       ELSE base64UrlDecode(Tail(segment))

\* JSON.parse: the value of a JSON text, a SyntaxError for any other text
JSONparse(text) ==
  IF text.kind = "json" THEN [ok |-> TRUE, val |-> text.val]
  ELSE [ok |-> FALSE, val |-> JUndefined]

\* what a call that raised hands back
Raised == [t |-> "raised"]

\* parseJwtClaims with the try/catch left out (a raise reaches the caller)
parseJwtClaimsNoCatch(token) ==
  LET parts == Split(token)
  IN IF Len(parts) < 2 THEN JNull
     ELSE LET decoded == base64UrlDecode(parts[2])
          IN IF decoded = EmptyText THEN JNull
             ELSE IF JSONparse(decoded).ok THEN JSONparse(decoded).val
             ELSE Raised

parseJwtClaims(token) ==
  LET parts == Split(token)
  IN IF Len(parts) < 2 THEN JNull
     ELSE LET decoded == base64UrlDecode(parts[2])
          IN IF decoded = EmptyText THEN JNull
             ELSE IF JSONparse(decoded).ok THEN JSONparse(decoded).val
             ELSE JNull

\* claims["exp"]: a property read of any value
GetProp(v, key) ==
  IF v.t = "object" /\ key \in DOMAIN v.props THEN v.props[key] ELSE JUndefined

\* Math.floor(Date.now() / 1000)
UnixSeconds(ms) == ms \div 1000

\* tokenIsExpired with `exp < now`
tokenIsExpiredStrict(token, ms) ==
  LET claims == parseJwtClaims(token)
  IN IF ~Truthy(claims) THEN JNull
     ELSE LET exp == GetProp(claims, "exp")
          IN IF exp.t # "number" THEN JNull
             ELSE JBool(exp.n < UnixSeconds(ms))

tokenIsExpired(token, ms) ==
  LET claims == parseJwtClaims(token)
  IN IF ~Truthy(claims) THEN JNull
     ELSE LET exp == GetProp(claims, "exp")
          IN IF exp.t # "number" THEN JNull
             ELSE JBool(exp.n <= UnixSeconds(ms))

\* a toast shown to the user
Toast(title, message, action) ==
  [style |-> "Failure", title |-> title, message |-> message, primaryAction |-> action]

NoAction == [title |-> "none", opens |-> "none"]

MissingTokenToast ==
  Toast("Missing API token",
        <<"Set your API token in the Kalpa Raycast extension preferences.">>, NoAction)

ExpiredTokenToast ==
  Toast("API token expired",
        <<"Get a fresh token from the Kalpa web app (open /api/clerk-token) and paste it into Raycast preferences.">>,
        NoAction)

\* ensureValidTokenOrToast that lets an unknown expiry count as expired
ensureValidTokenOrToastPessimistic(p, ms) ==
  LET token == getApiToken(p)
  IN IF ~Truthy(token) THEN [ret |-> JNull, shown |-> <<MissingTokenToast>>]
     ELSE IF tokenIsExpired(token.s, ms) # JBool(FALSE)
          THEN [ret |-> JNull, shown |-> <<ExpiredTokenToast>>]
          ELSE [ret |-> token, shown |-> <<>>]

\* ensureValidTokenOrToast(): what it returns and the toasts it shows
ensureValidTokenOrToast(p, ms) ==
  LET token == getApiToken(p)
  IN IF ~Truthy(token) THEN [ret |-> JNull, shown |-> <<MissingTokenToast>>]
     ELSE IF tokenIsExpired(token.s, ms) = JBool(TRUE)
          THEN [ret |-> JNull, shown |-> <<ExpiredTokenToast>>]
          ELSE [ret |-> token, shown |-> <<>>]

(***************************************************************************)
(* State.                                                                  *)
(***************************************************************************)
VARIABLES
  prefs,           \* the extension preferences (getPreferenceValues)
  clockMs,         \* Date.now()
  clientInstance,  \* the module-level singleton of kalpa-client.ts
  op,              \* the client operation in progress: its name and arguments
  pc,              \* where the operation stands
  token,           \* what ensureValidTokenOrToast returned to the operation
  request,         \* the options handed to fetchWithRetry
  attempt,         \* fetchWithRetry's loop counter
  lastError,       \* fetchWithRetry's lastError
  timers,          \* per attempt: the setTimeout of fetchWithTimeout
  aborted,         \* per attempt: controller.signal.aborted
  net,             \* per attempt: the state of the fetch() promise
  response,        \* what fetchWithRetry returned
  outcome,         \* how the operation ended: a value returned or an error raised
  attempts,        \* fetch() calls issued by the current fetchWithRetry
  delays,          \* the backoff sleeps of the current fetchWithRetry, in ms
  toasts,          \* the toasts shown since the entry point was called
  wire,            \* the response the network delivered last
  agg,             \* the useAllLinks call in progress: its stage and the pages it has
  probe,           \* the last direct application of a function on its own
  screen,          \* what the Search Links and Recent Links commands rendered last
  sample,          \* the links and the search text a helper is applied to
  history          \* what has happened since the entry point was called: the fetch()
                   \* calls issued and the attempts the backend applied; kept only
                   \* by the specifications that record it

vars ==
  << prefs, clockMs, clientInstance, op, pc, token, request, attempt, lastError,
     timers, aborted, net, response, outcome, attempts, delays, toasts, wire,
     agg, probe, screen, sample, history >>

envVars == << prefs, clockMs >>
fetchVars == << attempt, lastError, timers, aborted, net, response, attempts, delays, wire >>

Attempts == 0..DEFAULT_RETRIES

NoOp == [name |-> "none", via |-> "none"]
NoRequest == [method |-> "none"]
NoError == [t |-> "null"]
NoResponse == [status |-> 0]
NoOutcome == [kind |-> "pending"]
NoProbe == [fn |-> "none", arg |-> <<>>, ms |-> 0, out |-> [t |-> "undefined"], shown |-> <<>>]
IdleAgg == [pc |-> "idle", pages |-> <<>>, outcome |-> [kind |-> "pending"]]
NoScreen == [search |-> "none", recent |-> "none"]
NoSample == [links |-> <<>>, query |-> <<>>]
NoAborts == [i \in Attempts |-> FALSE]
NoHistory(recording) == [recording |-> recording, sent |-> 0, applied |-> NoAborts]

\* the history after a step, where it is recorded
Record(sent, applied) ==
  history' = IF history.recording
             THEN [history EXCEPT !.sent = sent, !.applied = applied]
             ELSE history

\* new Error(message) raised by `raisedBy`
Error(name, message, serial) == [t |-> "Error", name |-> name, message |-> message, serial |-> serial]
Throw(e) == [kind |-> "throw", error |-> e]
Return(v) == [kind |-> "return", value |-> v]

\* String.prototype.includes on a message, word by word
Includes(message, word) == \E i \in 1..Len(message) : message[i] = word

ClockValues == { 500 * k : k \in 0..MaxTicks }

(***************************************************************************)
(* Texts as words, for messages built from response bodies.                *)
(***************************************************************************)
KeyOrder == <<"alg", "exp", "details", "error", "page", "value">>

JArr(items) == [t |-> "array", items |-> items]

\* String(v) of a scalar
StringOf(v) ==
  CASE v.t = "string" -> v.s
    [] v.t = "number" -> <<ToString(v.n)>>
    [] v.t = "boolean" -> IF v.b THEN <<"true">> ELSE <<"false">>
    [] v.t = "null" -> <<"null">>
    [] v.t = "undefined" -> <<"undefined">>
    [] v.t = "array" -> <<"[array]">>
    [] OTHER -> <<"[object Object]">>

\* JSON.stringify of the sample values, word by word
StringifyScalar(v) ==
  IF v.t = "string" THEN <<"\"">> \o v.s \o <<"\"">> ELSE StringOf(v)

RECURSIVE StringifyProps(_, _)
StringifyProps(p, i) ==
  IF i > Len(KeyOrder) THEN <<>>
  ELSE IF KeyOrder[i] \in DOMAIN p
       THEN <<KeyOrder[i], ":">> \o StringifyScalar(p[KeyOrder[i]]) \o StringifyProps(p, i + 1)
       ELSE StringifyProps(p, i + 1)

Stringify(v) ==
  IF v.t = "object" THEN <<"{">> \o StringifyProps(v.props, 1) \o <<"}">>
  ELSE StringifyScalar(v)

\* the characters of a text
TextWords(text) == IF text.kind = "raw" THEN text.s ELSE Stringify(text.val)

(***************************************************************************)
(* kalpa-client.ts: the client object and its requests.                    *)
(***************************************************************************)
NoClient == [t |-> "null"]

\* new KalpaClient()
KalpaClient(p) ==
  [ t |-> "KalpaClient",
    convexUrl |-> CONVEX_URL,
    apiToken |-> IF "apiToken" \in DOMAIN p THEN JStr(p.apiToken) ELSE JUndefined,
    kalpaAppUrl |-> KALPA_APP_URL,
    timeout |-> DEFAULT_TIMEOUT ]

\* a getKalpaClient that builds a new client on every call
getKalpaClientFresh(instance, p) == KalpaClient(p)

\* getKalpaClient(): the instance afterwards
getKalpaClient(instance, p) ==
  IF instance = NoClient THEN KalpaClient(p) ELSE instance

\* `Bearer ${token}`
Bearer(tok) ==
  [ scheme |-> "Bearer",
    credential |-> IF tok.t = "string" THEN tok.s ELSE <<[ch |-> "lit", text |-> tok.t]>> ]
NoAuthorization == [scheme |-> "none", credential |-> <<>>]

Headers(auth) == [contentType |-> "application/json", authorization |-> auth]

\* getHeaders that takes the credential the client was built with first
getHeadersCached(client, p) ==
  LET tok == IF Truthy(client.apiToken) THEN client.apiToken ELSE getApiToken(p)
  IN Headers(IF Truthy(tok) THEN Bearer(tok) ELSE NoAuthorization)

\* getHeaders()
getHeaders(client, p) ==
  LET tok == IF Truthy(getApiToken(p)) THEN getApiToken(p) ELSE client.apiToken
  IN Headers(IF Truthy(tok) THEN Bearer(tok) ELSE NoAuthorization)

OpNames == {"query", "mutation", "linksQuery", "getUniverses", "saveLink"}

\* the url and options each operation hands to fetchWithRetry
RequestOf(o, client, p, tok) ==
  CASE o.name = "query" ->
         [method |-> "POST", url |-> <<client.kalpaAppUrl, "/api/", "path">>,
          headers |-> getHeaders(client, p)]
    [] o.name = "mutation" ->
         [method |-> "POST", url |-> <<client.convexUrl, "/api/mutation">>,
          headers |-> getHeaders(client, p)]
    [] o.name = "linksQuery" ->
         [method |-> "POST", url |-> <<client.convexUrl, "/http/links-list">>,
          headers |-> Headers(Bearer(tok))]
    [] o.name = "getUniverses" ->
         [method |-> "GET", url |-> <<client.convexUrl, "/http/universes-list">>,
          headers |-> Headers(Bearer(tok))]
    [] o.name = "saveLink" ->
         [method |-> "POST", url |-> <<client.kalpaAppUrl, "/api/save">>,
          headers |-> getHeaders(client, p)]

AuthenticationRequired == Error("Error", <<"Authentication", "required">>, 0)

\* `if (!token)` of every operation, left out
GuardRejectsNever(tok) == FALSE

\* `if (!token) throw new Error("Authentication required")`
GuardRejects(tok) == ~Truthy(tok)

(***************************************************************************)
(* What the network can answer.                                            *)
(***************************************************************************)
Item(id, time) == [_id |-> id, _creationTime |-> time]

\* the pages the links-list endpoint answers with, by the kind asked for; the
\* same link may come back under two kinds, and a page may be empty
SamplePages(via) ==
  CASE via = "getVideos" ->
         { <<Item("v1", 4)>>, <<Item("l3", 2), Item("v3", 2)>> }
    [] via = "getCodepenLinks" ->
         { <<Item("c1", 2), Item("c2", 1)>>, <<>> }
    [] OTHER ->
         { <<Item("l1", 5), Item("l2", 3)>>, <<Item("l3", 2)>> }

OkBodies(o) ==
  IF o.name = "linksQuery"
  THEN { JsonText(JObj([page |-> JArr(pg)])) : pg \in SamplePages(o.via) }
  ELSE { JsonText(JObj([value |-> JStr(<<"done">>)])) }

ErrorBodies ==
  { RawText(<<"Unauthorized">>),
    RawText(<<"Authentication", "service", "unavailable">>),
    EmptyText,
    JsonText(JObj([error |-> JStr(<<"Invalid", "token">>)])),
    JsonText(JObj([details |-> JStr(<<"Token", "revoked">>), error |-> JStr(<<"Forbidden">>)])),
    JsonText(JObj([value |-> JStr(<<"none">>)])) }

HttpResponse(status, body) ==
  [status |-> status, ok |-> (status >= 200 /\ status <= 299), body |-> body]

Responses(o) ==
  { HttpResponse(200, b) : b \in OkBodies(o) \cup {RawText(<<"<html>">>)} }
  \cup { HttpResponse(st, b) : st \in {401, 500}, b \in ErrorBodies }

\* what fetch() rejects with when the transport fails; serial tells the error
\* objects of the attempts apart
TransportFailures(serial) ==
  { Error("TypeError", <<"fetch", "failed">>, serial) }

AbortError(serial) == Error("AbortError", <<"This", "operation", "was", "aborted">>, serial)

(***************************************************************************)
(* fetchWithTimeout and fetchWithRetry.                                    *)
(***************************************************************************)
UnsetTimers == [i \in Attempts |-> [st |-> "unset", ms |-> 0]]
NoCalls == [i \in Attempts |-> "none"]

\* setTimeout(() => controller.abort(), timeout)
setTimeout(ts, i, ms) == [ts EXCEPT ![i] = [st |-> "armed", ms |-> ms]]

\* fetchWithTimeout without its `finally`
clearTimeoutMissing(ts, i) == ts

\* finally { clearTimeout(timeoutId) }
clearTimeout(ts, i) ==
  IF ts[i].st = "armed" THEN [ts EXCEPT ![i].st = "cleared"] ELSE ts

\* a backoff that grows linearly
BackoffDelayLinear(i) == BASE_BACKOFF_MS * (i + 1)

\* a backoff that counts the attempts from 1
BackoffDelayFromOne(i) == BASE_BACKOFF_MS * 2^(i + 1)

\* BASE_BACKOFF_MS * Math.pow(2, attempt)
BackoffDelay(i) == BASE_BACKOFF_MS * 2^i

\* `if (attempt < retries)`
HasAttemptsLeft(i) == i < DEFAULT_RETRIES

\* lastError that keeps the first error
CaptureFirstError(prev, thrown) ==
  IF prev # NoError THEN prev
  ELSE IF thrown.t = "Error" THEN thrown
  ELSE Error("Error", StringOf(thrown), thrown.serial)

\* lastError = error instanceof Error ? error : new Error(String(error))
CaptureError(prev, thrown) ==
  IF thrown.t = "Error" THEN thrown ELSE Error("Error", StringOf(thrown), thrown.serial)

ConnectionFailedToast(client) ==
  Toast("Connection Failed",
        <<"Could not reach Kalpa after", ToString(DEFAULT_RETRIES + 1), "attempts">>,
        [title |-> "Open Kalpa Web App", opens |-> client.kalpaAppUrl])

\* the catch block of fetchWithRetry and, once the loop is over, its tail
CatchAttempt(thrown) ==
  LET e == CaptureError(lastError, thrown)
  IN /\ lastError' = e
     /\ IF HasAttemptsLeft(attempt)
        THEN /\ delays' = Append(delays, BackoffDelay(attempt))
             /\ pc' = "sleep"
             /\ UNCHANGED << toasts, outcome >>
        ELSE /\ delays' = delays
             /\ toasts' = Append(toasts, ConnectionFailedToast(clientInstance))
             /\ outcome' = Throw(IF e # NoError THEN e
                                 ELSE Error("Error", <<"Connection", "failed">>, 0))
             /\ pc' = "done"

(***************************************************************************)
(* The operations of KalpaClient.                                          *)
(***************************************************************************)
DefaultMessage(o, status) ==
  CASE o.name = "mutation" -> <<"Mutation failed (", ToString(status), ")">>
    [] o.name = "saveLink" -> <<"Failed to save link (", ToString(status), ")">>
    [] OTHER -> <<"Query failed (", ToString(status), ")">>

\* the extraction with the two fields taken the other way round
ErrorMessagePrefersError(o, resp) ==
  LET parsed == JSONparse(resp.body)
      errorText == TextWords(resp.body)
      fallback == DefaultMessage(o, resp.status)
  IN IF ~parsed.ok \/ parsed.val.t \in {"null", "undefined"}
     THEN IF errorText # <<>> THEN errorText ELSE fallback
     ELSE LET details == GetProp(parsed.val, "details")
              error == GetProp(parsed.val, "error")
          IN IF Truthy(error) THEN StringOf(error)
             ELSE IF Truthy(details) THEN StringOf(details)
             ELSE fallback

\* errorJson.details || errorJson.error || errorMessage, or the raw text when
\* the body is no JSON (or reading a field of it raises)
ErrorMessage(o, resp) ==
  LET parsed == JSONparse(resp.body)
      errorText == TextWords(resp.body)
      fallback == DefaultMessage(o, resp.status)
  IN IF ~parsed.ok \/ parsed.val.t \in {"null", "undefined"}
     THEN IF errorText # <<>> THEN errorText ELSE fallback
     ELSE LET details == GetProp(parsed.val, "details")
              error == GetProp(parsed.val, "error")
          IN IF Truthy(details) THEN StringOf(details)
             ELSE IF Truthy(error) THEN StringOf(error)
             ELSE fallback

AuthenticationRequiredToast ==
  Toast("Authentication Required",
        <<"Please update your API Token in extension preferences">>, NoAction)

\* the operations that show the toast on a 401
Shows401Toast(o) == o.name \in {"query", "getUniverses", "saveLink"}

\* how an operation ends once fetchWithRetry has returned `resp`
Settle(o, resp) ==
  IF resp.ok
  THEN IF ~JSONparse(resp.body).ok
       THEN Throw(Error("SyntaxError", <<"Unexpected", "token">>, 0))
       ELSE IF o.name = "mutation"
            THEN Return(GetProp(JSONparse(resp.body).val, "value"))
            ELSE IF o.name = "getUniverses"
            THEN LET universes == GetProp(JSONparse(resp.body).val, "universes")
                 IN Return(IF universes.t \in {"null", "undefined"}
                           THEN JArr(<<>>) ELSE universes)
            ELSE Return(JSONparse(resp.body).val)
  ELSE IF o.name = "linksQuery"
       THEN Throw(Error("Error", <<"Links query failed:">> \o TextWords(resp.body), 0))
       ELSE Throw(Error("Error", ErrorMessage(o, resp), 0))

SettleToasts(o, resp) ==
  IF ~resp.ok /\ resp.status = 401 /\ Shows401Toast(o)
  THEN <<AuthenticationRequiredToast>> ELSE <<>>

\* nothing of a finished call is kept
Forget ==
  /\ pc' = "idle"
  /\ op' = NoOp
  /\ token' = JNull
  /\ request' = NoRequest
  /\ attempt' = 0
  /\ lastError' = NoError
  /\ timers' = UnsetTimers
  /\ aborted' = NoAborts
  /\ net' = NoCalls
  /\ response' = NoResponse
  /\ outcome' = NoOutcome
  /\ attempts' = 0
  /\ delays' = <<>>
  /\ toasts' = <<>>
  /\ wire' = NoResponse
  /\ Record(0, NoAborts)

\* an operation is called: the token guard, then the request and its first attempt
CallOp(o, shownBefore) ==
  \E client \in {getKalpaClient(clientInstance, prefs)} :
    \E g \in {ensureValidTokenOrToast(prefs, clockMs)} :
      /\ clientInstance' = client
      /\ op' = o
      /\ token' = g.ret
      /\ toasts' = shownBefore \o g.shown
      /\ attempt' = 0
      /\ lastError' = NoError
      /\ aborted' = NoAborts
      /\ response' = NoResponse
      /\ wire' = NoResponse
      /\ delays' = <<>>
      /\ IF GuardRejects(g.ret)
         THEN /\ pc' = "done"
              /\ outcome' = Throw(AuthenticationRequired)
              /\ request' = NoRequest
              /\ timers' = UnsetTimers
              /\ net' = NoCalls
              /\ attempts' = 0
         ELSE /\ pc' = "inflight"
              /\ outcome' = NoOutcome
              /\ request' = RequestOf(o, client, prefs, g.ret)
              /\ timers' = setTimeout(UnsetTimers, 0, client.timeout)
              /\ net' = [NoCalls EXCEPT ![0] = "pending"]
              /\ attempts' = 1

\* the operations that change what the backend stores: mutation() behind
\* toggleRead, toggleArchive, assignToUniverse and removeFromUniverse, and saveLink
Writes(o) == o.name \in {"mutation", "saveLink"}

\* an entry point calls one operation of the client
Call(name) ==
  /\ pc = "idle" /\ agg.pc = "idle"
  /\ CallOp([name |-> name, via |-> "direct"], <<>>)
  /\ Record(attempts', NoAborts)
  /\ UNCHANGED << envVars, agg, probe, screen, sample >>

\* fetchWithRetry that takes a response with an error status for a failed attempt
NetRespondsRetryingErrors(r) ==
  /\ pc = "inflight" /\ net[attempt] = "pending" /\ ~aborted[attempt]
  /\ r \in Responses(op)
  /\ net' = [net EXCEPT ![attempt] = "resolved"]
  /\ wire' = r
  /\ timers' = clearTimeout(timers, attempt)
  /\ IF r.ok
     THEN /\ response' = r
          /\ pc' = "respond"
          /\ UNCHANGED << lastError, delays, toasts, outcome >>
     ELSE /\ response' = response
          /\ CatchAttempt(Error("Error", <<"HTTP", ToString(r.status)>>, attempts))
  /\ Record(history.sent, [history.applied EXCEPT ![attempt] = @ \/ (r.ok /\ Writes(op))])
  /\ UNCHANGED << envVars, clientInstance, op, token, request, attempt,
                  aborted, attempts, agg, probe, screen, sample >>

\* fetch() resolves with a response, whatever its status
NetResponds(r) ==
  /\ pc = "inflight" /\ net[attempt] = "pending" /\ ~aborted[attempt]
  /\ r \in Responses(op)
  /\ net' = [net EXCEPT ![attempt] = "resolved"]
  /\ wire' = r
  /\ timers' = clearTimeout(timers, attempt)
  /\ response' = r
  /\ pc' = "respond"
  /\ Record(history.sent, [history.applied EXCEPT ![attempt] = @ \/ (r.ok /\ Writes(op))])
  /\ UNCHANGED << envVars, clientInstance, op, token, request, attempt, lastError,
                  aborted, outcome, attempts, delays, toasts, agg, probe, screen, sample >>

\* fetch() rejects: the transport failed
NetFails(thrown) ==
  /\ pc = "inflight" /\ net[attempt] = "pending" /\ ~aborted[attempt]
  /\ thrown \in TransportFailures(attempts)
  /\ net' = [net EXCEPT ![attempt] = "rejected"]
  /\ timers' = clearTimeout(timers, attempt)
  /\ CatchAttempt(thrown)
  /\ UNCHANGED << envVars, clientInstance, op, token, request, attempt, aborted,
                  response, attempts, wire, agg, probe, screen, sample, history >>

\* a timer whose callback never runs
TimerNeverFires(i) == FALSE /\ UNCHANGED vars

\* the timeout of attempt i elapses: controller.abort()
TimerFires(i) ==
  /\ timers[i].st = "armed"
  /\ timers' = [timers EXCEPT ![i].st = "fired"]
  /\ aborted' = [aborted EXCEPT ![i] = TRUE]
  /\ UNCHANGED << envVars, clientInstance, op, pc, token, request, attempt, lastError,
                  net, response, outcome, attempts, delays, toasts, wire, agg, probe, screen, sample, history >>

\* the aborted fetch() rejects with an AbortError
NetAborted ==
  /\ pc = "inflight" /\ net[attempt] = "pending" /\ aborted[attempt]
  /\ net' = [net EXCEPT ![attempt] = "rejected"]
  /\ timers' = clearTimeout(timers, attempt)
  /\ CatchAttempt(AbortError(attempts))
  /\ UNCHANGED << envVars, clientInstance, op, token, request, attempt, aborted,
                  response, attempts, wire, agg, probe, screen, sample, history >>

\* a loop that asks the token guard again before every further attempt
SleepDoneAsksGuard ==
  /\ pc = "sleep"
  /\ \E g \in {ensureValidTokenOrToast(prefs, clockMs)} :
       /\ token' = g.ret
       /\ toasts' = toasts \o g.shown
       /\ IF GuardRejects(g.ret)
          THEN /\ pc' = "done"
               /\ outcome' = Throw(AuthenticationRequired)
               /\ UNCHANGED << attempt, timers, net, attempts, history >>
          ELSE /\ attempt' = attempt + 1
               /\ timers' = setTimeout(timers, attempt + 1, clientInstance.timeout)
               /\ net' = [net EXCEPT ![attempt + 1] = "pending"]
               /\ attempts' = attempts + 1
               /\ pc' = "inflight"
               /\ outcome' = outcome
               /\ Record(history.sent + 1, history.applied)
  /\ UNCHANGED << envVars, clientInstance, op, request, lastError, aborted,
                  response, delays, wire, agg, probe, screen, sample >>

\* the backoff sleep is over: the next turn of the loop and its attempt
SleepDone ==
  /\ pc = "sleep"
  /\ attempt' = attempt + 1
  /\ timers' = setTimeout(timers, attempt + 1, clientInstance.timeout)
  /\ net' = [net EXCEPT ![attempt + 1] = "pending"]
  /\ attempts' = attempts + 1
  /\ pc' = "inflight"
  /\ Record(history.sent + 1, history.applied)
  /\ UNCHANGED << envVars, clientInstance, op, token, request, lastError, aborted,
                  response, outcome, delays, toasts, wire, agg, probe, screen, sample >>

\* the operation reads the body of the response it got and ends
ReadBody ==
  /\ pc = "respond"
  /\ outcome' = Settle(op, response)
  /\ toasts' = toasts \o SettleToasts(op, response)
  /\ pc' = "done"
  /\ UNCHANGED << envVars, clientInstance, op, token, request, fetchVars, agg, probe, screen, sample, history >>

\* the entry point has the result of its call
Finish ==
  /\ pc = "done" /\ agg.pc = "idle"
  /\ Forget
  /\ UNCHANGED << envVars, clientInstance, agg, probe, screen, sample >>

(***************************************************************************)
(* The environment: time passes, the user edits the preference.            *)
(***************************************************************************)
Tick ==
  /\ clockMs + 500 \in ClockValues
  /\ clockMs' = clockMs + 500
  /\ UNCHANGED << prefs, clientInstance, op, pc, token, request, fetchVars, outcome,
                  toasts, agg, probe, screen, sample, history >>

\* sample credentials: header.payload.signature with the given exp claim
Jwt(exp) ==
  << B64(JsonText(JObj([alg |-> JStr(<<"RS256">>)]))), DOT,
     B64(JsonText(JObj([exp |-> JNum(exp)]))), DOT, B64(RawText(<<"%junk%">>)) >>

\* the preferences the user sets: none, blank, an opaque string, and tokens
\* that expire at second 1 (one of them pasted with a blank in front)
SamplePrefs ==
  { NoPrefs, PrefsOf(<<SP>>), PrefsOf(<<B64(RawText(<<"%junk%">>))>>),
    PrefsOf(<<SP>> \o Jwt(1)) }

\* the preference is read when an operation is called, and only then
ChangePrefs(p) ==
  /\ pc \in {"idle", "done"}
  /\ p \in SamplePrefs /\ p # prefs
  /\ prefs' = p
  /\ UNCHANGED << clockMs, clientInstance, op, pc, token, request, fetchVars, outcome,
                  toasts, agg, probe, screen, sample, history >>

(***************************************************************************)
(* hooks/useKalpa.ts: useAllLinks.                                         *)
(***************************************************************************)
\* a sort that puts an item in front of the earlier ones of its timestamp
RECURSIVE InsertDescUnstable(_, _)
InsertDescUnstable(sorted, x) ==
  IF sorted = <<>> THEN <<x>>
  ELSE IF Head(sorted)._creationTime > x._creationTime
       THEN <<Head(sorted)>> \o InsertDescUnstable(Tail(sorted), x)
       ELSE <<x>> \o sorted

\* Array.prototype.sort((a, b) => b._creationTime - a._creationTime): stable
RECURSIVE InsertDesc(_, _)
InsertDesc(sorted, x) ==
  IF sorted = <<>> THEN <<x>>
  ELSE IF Head(sorted)._creationTime >= x._creationTime
       THEN <<Head(sorted)>> \o InsertDesc(Tail(sorted), x)
       ELSE <<x>> \o sorted

RECURSIVE SortByCreationTimeDesc(_)
SortByCreationTimeDesc(items) ==
  IF items = <<>> THEN <<>>
  ELSE CHOOSE sorted \in
         { InsertDesc(front, items[Len(items)]) :
             front \in {SortByCreationTimeDesc(SubSeq(items, 1, Len(items) - 1))} } : TRUE

RECURSIVE Concat(_)
Concat(pages) == IF pages = <<>> THEN <<>> ELSE Head(pages) \o Concat(Tail(pages))

SubFetches == {"getLinks", "getVideos", "getCodepenLinks"}

\* an order of the sub-fetches that leaves the videos out
FollowingSkipsVideos(stage) == "getCodepenLinks"

\* the sub-fetch that follows `stage`
Following(stage) == IF stage = "getLinks" THEN "getVideos" ELSE "getCodepenLinks"

\* the catch of useAllLinks swallows every error
DowngradesAlways(e) == TRUE

\* error instanceof Error && error.message.includes("Authentication")
Downgrades(e) == e.t = "Error" /\ Includes(e.message, "Authentication")

\* `!prefs.apiToken` of the two commands: the preference as stored, untrimmed
ApiTokenConfigured(p) == "apiToken" \in DOMAIN p /\ Len(p.apiToken) > 0

\* SearchLinksCommand with an empty search text and the universes loaded: the
\* title of the view it returns
SearchLinksView(p, data, isLoading) ==
  LET filteredLinks == IF data.t = "array" THEN data.items ELSE <<>>
  IN IF ~ApiTokenConfigured(p) THEN "Login Required"
     ELSE IF Len(filteredLinks) = 0 /\ ~isLoading THEN "No Links Found"
     ELSE "List"

\* RecentLinksCommand: the title of the view it returns
RecentLinksView(p, data, isLoading) ==
  IF ~ApiTokenConfigured(p) THEN "Login Required"
  ELSE IF data.t = "array" /\ Len(data.items) = 0 /\ ~isLoading THEN "No Recent Links"
  ELSE "List"

\* the two commands render what the hook hands them
Render(p, data, isLoading) ==
  [search |-> SearchLinksView(p, data, isLoading),
   recent |-> RecentLinksView(p, data, isLoading)]

\* useCachedPromise: the data of a fetcher that ended with `result`
DataOf(result) == IF result.kind = "return" THEN JArr(result.value) ELSE JUndefined

\* the hook's fetcher starts: the first sub-fetch is called
StartAllLinks ==
  /\ pc = "idle" /\ agg.pc = "idle"
  /\ agg' = [pc |-> "getLinks", pages |-> <<>>, outcome |-> NoOutcome]
  /\ CallOp([name |-> "linksQuery", via |-> "getLinks"], <<>>)
  /\ screen' = Render(prefs, JUndefined, TRUE)
  /\ Record(attempts', NoAborts)
  /\ UNCHANGED << envVars, probe, sample >>

\* a sub-fetch returned and another one follows
AllLinksNext ==
  /\ agg.pc \in {"getLinks", "getVideos"} /\ pc = "done" /\ outcome.kind = "return"
  /\ agg' = [agg EXCEPT !.pc = Following(@),
                        !.pages = Append(@, GetProp(outcome.value, "page").items)]
  /\ CallOp([name |-> "linksQuery", via |-> Following(agg.pc)], toasts)
  /\ Record(history.sent + attempts', NoAborts)
  /\ UNCHANGED << envVars, probe, screen, sample >>

\* the last sub-fetch returned: the pages are combined and sorted
AllLinksMerge ==
  /\ agg.pc = "getCodepenLinks" /\ pc = "done" /\ outcome.kind = "return"
  /\ \E pages \in {Append(agg.pages, GetProp(outcome.value, "page").items)} :
       \E allLinks \in {Concat(pages)} :
         \E result \in {Return(SortByCreationTimeDesc(allLinks))} :
           /\ agg' = [pc |-> "done", pages |-> pages, outcome |-> result]
           /\ screen' = Render(prefs, DataOf(result), FALSE)
  /\ UNCHANGED << envVars, clientInstance, op, pc, token, request, fetchVars, outcome,
                  toasts, probe, sample, history >>

\* a catch that returns what the earlier sub-fetches brought
AllLinksCatchKeepsPages ==
  /\ agg.pc \in SubFetches /\ pc = "done" /\ outcome.kind = "throw"
  /\ \E result \in {IF Downgrades(outcome.error)
                     THEN Return(SortByCreationTimeDesc(Concat(agg.pages)))
                     ELSE Throw(outcome.error)} :
       /\ agg' = [pc |-> "done", pages |-> agg.pages, outcome |-> result]
       /\ screen' = Render(prefs, DataOf(result), FALSE)
  /\ UNCHANGED << envVars, clientInstance, op, pc, token, request, fetchVars, outcome,
                  toasts, probe, sample, history >>

\* a sub-fetch raised: the catch of useAllLinks
AllLinksCatch ==
  /\ agg.pc \in SubFetches /\ pc = "done" /\ outcome.kind = "throw"
  /\ LET result == IF Downgrades(outcome.error) THEN Return(<<>>)
                   ELSE Throw(outcome.error)
     IN /\ agg' = [pc |-> "done", pages |-> agg.pages, outcome |-> result]
        /\ screen' = Render(prefs, DataOf(result), FALSE)
  /\ UNCHANGED << envVars, clientInstance, op, pc, token, request, fetchVars, outcome,
                  toasts, probe, sample, history >>

\* the command is closed
AllLinksFinish ==
  /\ agg.pc = "done"
  /\ agg' = IdleAgg
  /\ screen' = NoScreen
  /\ Forget
  /\ UNCHANGED << envVars, clientInstance, probe, sample >>

(***************************************************************************)
(* The extension.                                                          *)
(***************************************************************************)
Started(recording) ==
  /\ history = NoHistory(recording)
  /\ prefs \in SamplePrefs
  /\ clockMs = 0
  /\ clientInstance = NoClient
  /\ op = NoOp
  /\ pc = "idle"
  /\ token = JNull
  /\ request = NoRequest
  /\ attempt = 0
  /\ lastError = NoError
  /\ timers = UnsetTimers
  /\ aborted = NoAborts
  /\ net = NoCalls
  /\ response = NoResponse
  /\ outcome = NoOutcome
  /\ attempts = 0
  /\ delays = <<>>
  /\ toasts = <<>>
  /\ wire = NoResponse
  /\ agg = IdleAgg
  /\ probe = NoProbe
  /\ screen = NoScreen
  /\ sample = NoSample

Init == Started(FALSE)

Next ==
  \/ \E name \in OpNames : Call(name)
  \/ \E r \in Responses(op) : NetResponds(r)
  \/ \E thrown \in TransportFailures(attempts) : NetFails(thrown)
  \/ \E i \in Attempts : TimerFires(i)
  \/ NetAborted
  \/ SleepDone
  \/ ReadBody
  \/ Finish
  \/ Tick
  \/ \E p \in SamplePrefs : ChangePrefs(p)
  \/ StartAllLinks
  \/ AllLinksNext
  \/ AllLinksMerge
  \/ AllLinksCatch
  \/ AllLinksFinish

Spec == Init /\ [][Next]_vars

(***************************************************************************)
(* One command that runs useAllLinks, with the scheduling of the runtime:  *)
(* a pending fetch() settles or its timer fires, a timer that is due runs  *)
(* its callback, and a promise that has settled runs its continuation.     *)
(***************************************************************************)
NextLive ==
  \/ StartAllLinks
  \/ \E r \in Responses(op) : NetResponds(r)
  \/ \E thrown \in TransportFailures(attempts) : NetFails(thrown)
  \/ \E i \in Attempts : TimerFires(i)
  \/ NetAborted
  \/ SleepDone
  \/ ReadBody
  \/ AllLinksNext
  \/ AllLinksMerge
  \/ AllLinksCatch
  \/ AllLinksFinish

\* what the event loop runs once it can run: the callback of a timer that is
\* due, the rejection of an aborted fetch(), and the continuation of a promise
\* that has settled
Scheduled ==
  \/ \E i \in Attempts : TimerFires(i)
  \/ NetAborted
  \/ SleepDone
  \/ ReadBody
  \/ AllLinksNext
  \/ AllLinksMerge
  \/ AllLinksCatch

Fairness == WF_vars(Scheduled)

InitLive == Started(TRUE)

SpecLive == InitLive /\ [][NextLive]_vars /\ Fairness

(***************************************************************************)
(* One state-changing operation after the other, and the backend: it may   *)
(* apply a request that reached it whether or not the client still waits   *)
(* for the answer (an attempt the client gave up on can have arrived).     *)
(***************************************************************************)
BackendApplies(i) ==
  /\ history.recording /\ Writes(op)
  /\ net[i] \in {"pending", "rejected"} /\ ~history.applied[i]
  /\ history' = [history EXCEPT !.applied[i] = TRUE]
  /\ UNCHANGED << envVars, clientInstance, op, pc, token, request, fetchVars, outcome,
                  toasts, agg, probe, screen, sample >>

NextWrites ==
  \/ \E name \in {"mutation", "saveLink"} : Call(name)
  \/ \E r \in Responses(op) : NetResponds(r)
  \/ \E thrown \in TransportFailures(attempts) : NetFails(thrown)
  \/ \E i \in Attempts : TimerFires(i)
  \/ NetAborted
  \/ SleepDone
  \/ ReadBody
  \/ Finish
  \/ \E i \in Attempts : BackendApplies(i)

SpecWrites == InitLive /\ [][NextWrites]_vars

(***************************************************************************)
(* The functions of auth.ts applied on their own, to every preference      *)
(* string of the bound and at every time of the clock.                     *)
(***************************************************************************)
Probe(fn, arg, out, shown) ==
  [fn |-> fn, arg |-> arg, ms |-> clockMs, out |-> out, shown |-> shown]

\* the strings a caller has at hand: the preference as stored, and trimmed
Candidates == IF "apiToken" \in DOMAIN prefs THEN {prefs.apiToken, Trim(prefs.apiToken)} ELSE {}

ApplyGetApiToken ==
  /\ probe' = Probe("getApiToken", <<>>, getApiToken(prefs), <<>>)
  /\ UNCHANGED << envVars, clientInstance, op, pc, token, request, fetchVars, outcome,
                  toasts, agg, screen, sample, history >>

ApplyParseJwtClaims(str) ==
  /\ probe' = Probe("parseJwtClaims", str, parseJwtClaims(str), <<>>)
  /\ UNCHANGED << envVars, clientInstance, op, pc, token, request, fetchVars, outcome,
                  toasts, agg, screen, sample, history >>

ApplyTokenIsExpired(str) ==
  /\ probe' = Probe("tokenIsExpired", str, tokenIsExpired(str, clockMs), <<>>)
  /\ UNCHANGED << envVars, clientInstance, op, pc, token, request, fetchVars, outcome,
                  toasts, agg, screen, sample, history >>

ApplyEnsureValidTokenOrToast ==
  /\ LET g == ensureValidTokenOrToast(prefs, clockMs)
     IN probe' = Probe("ensureValidTokenOrToast", <<>>, g.ret, g.shown)
  /\ UNCHANGED << envVars, clientInstance, op, pc, token, request, fetchVars, outcome,
                  toasts, agg, screen, sample, history >>

\* login.tsx, LoginCommand: the heading of the view it returns
LoginCommand(p, ms) ==
  LET tok == getApiToken(p)
      expired == IF Truthy(tok) THEN tokenIsExpired(tok.s, ms) ELSE JNull
  IN IF Truthy(tok) /\ expired = JBool(FALSE) THEN JStr(<<"You're connected to Kalpa">>)
     ELSE IF Truthy(tok) /\ expired = JBool(TRUE) THEN JStr(<<"Your token has expired">>)
     ELSE JStr(<<"Connect to Kalpa">>)

ApplyLoginCommand ==
  /\ probe' = Probe("LoginCommand", <<>>, LoginCommand(prefs, clockMs), <<>>)
  /\ UNCHANGED << envVars, clientInstance, op, pc, token, request, fetchVars, outcome,
                  toasts, agg, screen, sample, history >>

(***************************************************************************)
(* quick-save.tsx.  A text is what new URL() makes of it: its protocol,    *)
(* host name and path, or no protocol when new URL() raises.               *)
(***************************************************************************)
Url(protocol, hostname, pathname) ==
  [protocol |-> protocol, hostname |-> hostname, pathname |-> pathname]
NotUrl(text) == Url("", text, "")

BROWSER_BUNDLE_IDS ==
  { "com.apple.Safari", "com.google.Chrome", "com.google.Chrome.canary",
    "org.chromium.Chromium", "com.brave.Browser", "com.microsoft.edgemac",
    "com.operasoftware.Opera", "org.mozilla.firefox", "com.vivaldi.Vivaldi",
    "company.thebrowser.Browser", "com.sigmaos.sigmaos" }

\* the browsers getCurrentBrowserTab has a script for
ScriptedBrowsers == BROWSER_BUNDLE_IDS \ {"org.mozilla.firefox", "com.sigmaos.sigmaos"}

BrowserTab(url, title) == [t |-> "tab", url |-> url, title |-> title]
NoTab == [t |-> "null", url |-> NotUrl(""), title |-> <<>>]

\* getCurrentBrowserTab(): `app` is the frontmost application and what its
\* AppleScript answers: it raises, or returns the parts that "|||" separates
getCurrentBrowserTab(app) ==
  IF app.bundleId = "" \/ app.bundleId \notin BROWSER_BUNDLE_IDS THEN NoTab
  ELSE IF app.bundleId \in ScriptedBrowsers
       THEN IF app.raises \/ Len(app.parts) < 2 THEN NoTab
            ELSE BrowserTab(app.parts[1], <<app.parts[2].hostname>>)
       ELSE NoTab

isValidUrl(str) == str.protocol \in {"http:", "https:"}

\* getUrlFromClipboard(): `clipboardText` is Clipboard.readText()
getUrlFromClipboard(clipboardText) ==
  IF clipboardText # NotUrl("") /\ isValidUrl(clipboardText)
  THEN BrowserTab(clipboardText,
                  <<clipboardText.hostname>>
                    \o IF clipboardText.pathname # "/" THEN <<clipboardText.pathname>> ELSE <<>>)
  ELSE NoTab

\* QuickSaveCommand(): the calls it makes, what it hands to saveLink, and the
\* toasts shown; `answer` is what the backend does with the request
QuickSaveCommand(p, ms, app, clipboardText, answer) ==
  IF ~Truthy(getApiToken(p))
  THEN [calls |-> <<>>, saved |-> <<>>,
        shown |-> <<Toast("Login Required", <<"Open Kalpa to get your API token">>,
                          [title |-> "Login to Kalpa", opens |-> "https://usekalpa.com/raycast"])>>]
  ELSE LET fromBrowser == getCurrentBrowserTab(app)
           tab == IF fromBrowser.t = "null" THEN getUrlFromClipboard(clipboardText)
                  ELSE fromBrowser
           calls == <<"getCurrentBrowserTab">>
                      \o IF fromBrowser.t = "null" THEN <<"getUrlFromClipboard">> ELSE <<>>
           g == ensureValidTokenOrToast(p, ms)
           raised == IF GuardRejects(g.ret) THEN <<AuthenticationRequired>>
                     ELSE IF answer = "ok" THEN <<>>
                     ELSE <<Error("Error", <<"Failed", "to", "save", "link", "(500)">>, 0)>>
       IN IF tab.t = "null"
          THEN [calls |-> calls, saved |-> <<>>,
                shown |-> <<Toast("No URL Found",
                                  <<"Open a browser or copy a URL to clipboard">>, NoAction)>>]
          ELSE [calls |-> calls \o <<"getSelectedText", "saveLink">>,
                saved |-> <<tab>>,
                shown |-> g.shown \o
                          IF raised = <<>>
                          THEN <<Toast("Saved to Kalpa", tab.title, NoAction)>>
                          ELSE <<Toast("Saving to Kalpa...", tab.title, NoAction),
                                 Toast("Failed to Save", <<"Error:">> \o raised[1].message,
                                       NoAction)>>]

\* the frontmost applications, the clipboards and the backends of the check
SampleApps ==
  { [bundleId |-> "com.apple.finder", raises |-> FALSE, parts |-> <<>>],
    [bundleId |-> "com.apple.Safari", raises |-> FALSE,
     parts |-> <<Url("https:", "example.com", "/a"), NotUrl("Example")>>],
    [bundleId |-> "com.google.Chrome", raises |-> FALSE,
     parts |-> <<Url("chrome:", "newtab", "/"), NotUrl("New Tab")>>],
    [bundleId |-> "company.thebrowser.Browser", raises |-> TRUE, parts |-> <<>>],
    [bundleId |-> "com.brave.Browser", raises |-> FALSE,
     parts |-> <<Url("https:", "example.com", "/a")>>],
    [bundleId |-> "org.mozilla.firefox", raises |-> FALSE, parts |-> <<>>] }

SampleClipboards ==
  { NotUrl(""), NotUrl("hello"), Url("https:", "kalpa.dev", "/"),
    Url("http:", "kalpa.dev", "/p"), Url("mailto:", "", "me@kalpa.dev") }

ApplyQuickSaveCommand(app, clipboardText, answer) ==
  /\ LET run == QuickSaveCommand(prefs, clockMs, app, clipboardText, answer)
     IN probe' = Probe("QuickSaveCommand", <<app, clipboardText, answer>>,
                       [calls |-> run.calls, saved |-> run.saved], run.shown)
  /\ UNCHANGED << envVars, clientInstance, op, pc, token, request, fetchVars, outcome,
                  toasts, agg, screen, sample, history >>

InitAuth ==
  /\ prefs \in {NoPrefs} \cup { PrefsOf(str) : str \in Strings }
  /\ clockMs \in ClockValues
  /\ clientInstance = NoClient
  /\ op = NoOp
  /\ pc = "idle"
  /\ token = JNull
  /\ request = NoRequest
  /\ attempt = 0
  /\ lastError = NoError
  /\ timers = UnsetTimers
  /\ aborted = NoAborts
  /\ net = NoCalls
  /\ response = NoResponse
  /\ outcome = NoOutcome
  /\ attempts = 0
  /\ delays = <<>>
  /\ toasts = <<>>
  /\ wire = NoResponse
  /\ agg = IdleAgg
  /\ probe = NoProbe
  /\ screen = NoScreen
  /\ sample = NoSample
  /\ history = NoHistory(FALSE)

NextAuth ==
  \/ ApplyGetApiToken
  \/ \E str \in Candidates : ApplyParseJwtClaims(str)
  \/ \E str \in Candidates : ApplyTokenIsExpired(str)
  \/ ApplyEnsureValidTokenOrToast
  \/ ApplyLoginCommand

SpecAuth == InitAuth /\ [][NextAuth]_vars

\* the Quick Save command run again and again, while time passes
NextQuickSave ==
  \/ \E app \in SampleApps, clipboardText \in SampleClipboards, answer \in {"ok", "fails"} :
       ApplyQuickSaveCommand(app, clipboardText, answer)
  \/ Tick

SpecQuickSave == Init /\ [][NextQuickSave]_vars

(***************************************************************************)
(* hooks/useKalpa.ts and kalpa-client.ts: the arguments that useAllLinks   *)
(* hands to its three sub-fetches, and the body each of them posts.        *)
(***************************************************************************)
\* a || b
OrElse(a, b) == IF Truthy(a) THEN a ELSE b

\* JSON.stringify(args) in linksQuery: a property that is undefined is left out
RequestBody(args) == [k \in {key \in DOMAIN args : args[key] # JUndefined} |-> args[k]]

\* getLinks(options): the body of its request
getLinks(options) ==
  RequestBody([ universeId |-> OrElse(GetProp(options, "universeId"), JUndefined),
                hideRead |-> OrElse(GetProp(options, "hideRead"), JBool(FALSE)),
                hideArchived |-> OrElse(GetProp(options, "hideArchived"), JBool(FALSE)),
                numItems |-> OrElse(GetProp(options, "numItems"), JNum(50)) ])

\* getVideos(options): the body of its request
getVideos(options) ==
  RequestBody([ universeId |-> OrElse(GetProp(options, "universeId"), JUndefined),
                hideRead |-> OrElse(GetProp(options, "hideRead"), JBool(FALSE)),
                hideArchived |-> OrElse(GetProp(options, "hideArchived"), JBool(FALSE)),
                numItems |-> OrElse(GetProp(options, "numItems"), JNum(50)),
                linkType |-> JStr(<<"video">>) ])

\* getCodepenLinks that leaves the universe out
getCodepenLinksNoUniverse(numItems, universeId) ==
  RequestBody([ numItems |-> IF numItems = JUndefined THEN JNum(50) ELSE numItems,
                linkType |-> JStr(<<"codepen">>) ])

\* getCodepenLinks(numItems = 50, universeId): the body of its request
getCodepenLinks(numItems, universeId) ==
  RequestBody([ numItems |-> IF numItems = JUndefined THEN JNum(50) ELSE numItems,
                linkType |-> JStr(<<"codepen">>),
                universeId |-> OrElse(universeId, JUndefined) ])

\* the fetcher of useAllLinks up to its three calls: the body of each request
useAllLinksArgs(opts) ==
  LET effectiveNumItems == OrElse(GetProp(opts, "numItems"), JNum(100))
      fetchOpts == JObj([k \in DOMAIN opts.props \cup {"numItems"} |->
                           IF k = "numItems" THEN effectiveNumItems ELSE opts.props[k]])
  IN [ getLinks |-> getLinks(fetchOpts),
       getVideos |-> getVideos(fetchOpts),
       getCodepenLinks |-> getCodepenLinks(effectiveNumItems, GetProp(opts, "universeId")) ]

\* LinkSearchOptions a caller may pass; SearchLinksCommand passes a universe
\* or undefined, a tag or undefined, hideArchived and numItems 100
SampleOptions ==
  { JObj(o) : o \in [ universeId : {JUndefined, JStr(<<>>), JStr(<<"u1">>)},
                      tagId : {JUndefined, JStr(<<"t1">>)},
                      hideRead : {JUndefined, JBool(FALSE), JBool(TRUE)},
                      hideArchived : {JUndefined, JBool(FALSE), JBool(TRUE)},
                      numItems : {JUndefined, JNum(0), JNum(25), JNum(100)} ] }

ApplyUseAllLinks(opts) ==
  /\ probe' = Probe("useAllLinks", <<opts>>, useAllLinksArgs(opts), <<>>)
  /\ UNCHANGED << envVars, clientInstance, op, pc, token, request, fetchVars, outcome,
                  toasts, agg, screen, sample, history >>

NextOptions ==
  \/ \E opts \in SampleOptions : ApplyUseAllLinks(opts)
  \/ Tick

SpecOptions == Init /\ [][NextOptions]_vars

(***************************************************************************)
(* utils/helpers.ts: the search helpers.  A string is the sequence of its   *)
(* characters.                                                             *)
(***************************************************************************)
\* most links a helper is handed
MaxLinks == 3

\* String.prototype.toLowerCase, on the letters the samples use
LowerOf(c) ==
  CASE c = "A" -> "a" [] c = "B" -> "b" [] c = "D" -> "d" [] c = "F" -> "f"
    [] c = "G" -> "g" [] c = "L" -> "l" [] c = "O" -> "o" [] OTHER -> c

toLowerCase(str) == [i \in 1..Len(str) |-> LowerOf(str[i])]

\* String.prototype.includes
StrIncludes(str, q) ==
  \E i \in 0..(Len(str) - Len(q)) : SubSeq(str, i + 1, i + Len(q)) = q

\* String.prototype.startsWith
startsWith(str, q) == Len(q) <= Len(str) /\ SubSeq(str, 1, Len(q)) = q

\* str.split(/\s+/): a run of blanks separates, a blank at either end leaves
\* an empty string there
RECURSIVE SkipBlanks(_)
SkipBlanks(str) == IF str # <<>> /\ Head(str) = " " THEN SkipBlanks(Tail(str)) ELSE str

RECURSIVE SplitBlanks(_, _)
SplitBlanks(str, cur) ==
  IF str = <<>> THEN <<cur>>
  ELSE IF Head(str) = " " THEN <<cur>> \o SplitBlanks(SkipBlanks(str), <<>>)
  ELSE SplitBlanks(Tail(str), Append(cur, Head(str)))

\* formatDomain: domain.replace(/^www\./, "")
formatDomain(domain) ==
  IF startsWith(domain, <<"w", "w", "w", ".">>) THEN SubSeq(domain, 5, Len(domain)) ELSE domain

\* the elements of a sequence
Range(seq) == { seq[i] : i \in 1..Len(seq) }

\* extractKeywords: the members of the Set it builds
extractKeywords(link) ==
  Range(SplitBlanks(toLowerCase(link.title), <<>>))
  \cup { toLowerCase(formatDomain(link.domain)) }
  \cup (IF "tags" \in DOMAIN link THEN { toLowerCase(t.name) : t \in Range(link.tags) } ELSE {})
  \cup (IF "universes" \in DOMAIN link
        THEN { toLowerCase(u.name) : u \in Range(link.universes) } ELSE {})
  \cup (IF "linkType" \in DOMAIN link THEN { link.linkType } ELSE {})

\* matchesSearch without the look at the summary
matchesSearchNoSummary(link, query) ==
  IF query = <<>> THEN TRUE
  ELSE LET lowerQuery == toLowerCase(query)
       IN \/ \E k \in extractKeywords(link) : StrIncludes(k, lowerQuery)
          \/ StrIncludes(toLowerCase(link.title), lowerQuery)
          \/ StrIncludes(toLowerCase(link.url), lowerQuery)

matchesSearch(link, query) ==
  IF query = <<>> THEN TRUE
  ELSE LET lowerQuery == toLowerCase(query)
       IN \/ \E k \in extractKeywords(link) : StrIncludes(k, lowerQuery)
          \/ StrIncludes(toLowerCase(link.title), lowerQuery)
          \/ StrIncludes(toLowerCase(link.url), lowerQuery)
          \/ /\ "summary_preview" \in DOMAIN link
             /\ StrIncludes(toLowerCase(link.summary_preview), lowerQuery)

\* a comparator that does not look at the start of the title
RelevanceCompareNoPrefix(a, b, lowerQuery) ==
  LET aExactTitle == toLowerCase(a.title) = lowerQuery
      bExactTitle == toLowerCase(b.title) = lowerQuery
      aContainsTitle == StrIncludes(toLowerCase(a.title), lowerQuery)
      bContainsTitle == StrIncludes(toLowerCase(b.title), lowerQuery)
  IN IF aExactTitle /\ ~bExactTitle THEN -1
     ELSE IF bExactTitle /\ ~aExactTitle THEN 1
     ELSE IF aContainsTitle /\ ~bContainsTitle THEN -1
     ELSE IF bContainsTitle /\ ~aContainsTitle THEN 1
     ELSE b._creationTime - a._creationTime

\* a comparator that puts a title with the query first whatever the other is
RelevanceCompareOneSided(a, b, lowerQuery) ==
  IF toLowerCase(a.title) = lowerQuery THEN -1
  ELSE IF StrIncludes(toLowerCase(a.title), lowerQuery) THEN -1
  ELSE IF StrIncludes(toLowerCase(b.title), lowerQuery) THEN 1
  ELSE b._creationTime - a._creationTime

\* the comparator of sortByRelevance
RelevanceCompare(a, b, lowerQuery) ==
  LET aExactTitle == toLowerCase(a.title) = lowerQuery
      bExactTitle == toLowerCase(b.title) = lowerQuery
      aStartsTitle == startsWith(toLowerCase(a.title), lowerQuery)
      bStartsTitle == startsWith(toLowerCase(b.title), lowerQuery)
      aContainsTitle == StrIncludes(toLowerCase(a.title), lowerQuery)
      bContainsTitle == StrIncludes(toLowerCase(b.title), lowerQuery)
  IN IF aExactTitle /\ ~bExactTitle THEN -1
     ELSE IF bExactTitle /\ ~aExactTitle THEN 1
     ELSE IF aStartsTitle /\ ~bStartsTitle THEN -1
     ELSE IF bStartsTitle /\ ~aStartsTitle THEN 1
     ELSE IF aContainsTitle /\ ~bContainsTitle THEN -1
     ELSE IF bContainsTitle /\ ~aContainsTitle THEN 1
     ELSE b._creationTime - a._creationTime

\* [...links].sort(compare): stable, an item stays behind those it ties with
RECURSIVE InsertByRelevance(_, _, _)
InsertByRelevance(sorted, x, lowerQuery) ==
  IF sorted = <<>> THEN <<x>>
  ELSE IF RelevanceCompare(Head(sorted), x, lowerQuery) <= 0
       THEN <<Head(sorted)>> \o InsertByRelevance(Tail(sorted), x, lowerQuery)
       ELSE <<x>> \o sorted

RECURSIVE SortWithRelevance(_, _)
SortWithRelevance(links, lowerQuery) ==
  IF links = <<>> THEN <<>>
  ELSE InsertByRelevance(SortWithRelevance(SubSeq(links, 1, Len(links) - 1), lowerQuery),
                         links[Len(links)], lowerQuery)

\* a sortByRelevance that leaves the links as they are when there is no query
sortByRelevanceAsGiven(links, query) ==
  IF query = <<>> THEN links
  ELSE SortWithRelevance(links, toLowerCase(query))

sortByRelevance(links, query) ==
  IF query = <<>> THEN SortByCreationTimeDesc(links)
  ELSE SortWithRelevance(links, toLowerCase(query))

\* filteredLinks of SearchLinksCommand, for the links the hook handed over
filteredLinks(allLinks, searchText) ==
  LET base == IF searchText # <<>>
              THEN SelectSeq(allLinks, LAMBDA link : matchesSearch(link, searchText))
              ELSE allLinks
  IN sortByRelevance(base, searchText)

\* the links and the search texts the helpers are applied to
SampleLinks ==
  { [_id |-> "1", _creationTime |-> 1, title |-> <<"G", "o">>, url |-> <<"g", "o", ".", "d", "e", "v">>,
     domain |-> <<"g", "o", ".", "d", "e", "v">>, linkType |-> <<"p", "a", "g", "e">>],
    [_id |-> "2", _creationTime |-> 2, title |-> <<"G", "o", "i", "n", "g">>, url |-> <<"x", ".", "i", "o", "/", "a">>,
     domain |-> <<"w", "w", "w", ".", "x", ".", "i", "o">>, tags |-> <<[name |-> <<"D", "e", "v">>]>>],
    [_id |-> "3", _creationTime |-> 3, title |-> <<"F", "o", "o", " ", "G", "o", " ", "B", "a", "r">>, url |-> <<"y", ".", "i", "o">>,
     domain |-> <<"y", ".", "i", "o">>, universes |-> <<[name |-> <<"L", "a", "b">>]>>, summary_preview |-> <<"B", "i", "g">>],
    [_id |-> "4", _creationTime |-> 3, title |-> <<"B", "a", "r">>, url |-> <<"t", ".", "b", "e">>,
     domain |-> <<"t", ".", "b", "e">>, linkType |-> <<"y", "o", "u", "t", "u", "b", "e">>, summary_preview |-> <<"G", "o", "!">>],
    [_id |-> "5", _creationTime |-> 1, title |-> <<"g", "o">>, url |-> <<"z", ".", "i", "o">>, domain |-> <<"z", ".", "i", "o">>],
    [_id |-> "6", _creationTime |-> 2, title |-> <<"A", "g", "o">>, url |-> <<"a", ".", "i", "o">>, domain |-> <<"a", ".", "i", "o">>,
     tags |-> <<>>] }

SampleQueries ==
  { <<>>, <<"g", "o">>, <<"G", "O">>, <<"b", "a", "r">>, <<"o", " ", "b">>, <<"w", "w", "w">>, <<"d", "e", "v">>, <<"L", "A", "B">>, <<"b", "i", "g">>, <<"y", "o", "u">>, <<"z", "z">> }

ApplySortByRelevance ==
  /\ probe' = Probe("sortByRelevance", <<>>, JArr(sortByRelevance(sample.links, sample.query)), <<>>)
  /\ UNCHANGED << envVars, clientInstance, op, pc, token, request, fetchVars, outcome,
                  toasts, agg, screen, sample, history >>

\* the comparator applied to every pair of the links
ApplyRelevanceCompare ==
  /\ sample.query # <<>>
  /\ LET n == Len(sample.links)
         results == [i \in 1..n |-> [j \in 1..n |->
                       RelevanceCompare(sample.links[i], sample.links[j],
                                        toLowerCase(sample.query))]]
     IN probe' = Probe("compare", <<>>, JArr(results), <<>>)
  /\ UNCHANGED << envVars, clientInstance, op, pc, token, request, fetchVars, outcome,
                  toasts, agg, screen, sample, history >>

ApplyMatchesSearch(i) ==
  /\ i \in 1..Len(sample.links)
  /\ probe' = Probe("matchesSearch", <<i>>, JBool(matchesSearch(sample.links[i], sample.query)), <<>>)
  /\ UNCHANGED << envVars, clientInstance, op, pc, token, request, fetchVars, outcome,
                  toasts, agg, screen, sample, history >>

ApplyFilteredLinks ==
  /\ probe' = Probe("filteredLinks", <<>>, JArr(filteredLinks(sample.links, sample.query)), <<>>)
  /\ UNCHANGED << envVars, clientInstance, op, pc, token, request, fetchVars, outcome,
                  toasts, agg, screen, sample, history >>

InitHelpers ==
  /\ sample \in [links : SeqsUpTo(SampleLinks, MaxLinks), query : SampleQueries]
  /\ prefs = NoPrefs
  /\ clockMs = 0
  /\ clientInstance = NoClient
  /\ op = NoOp
  /\ pc = "idle"
  /\ token = JNull
  /\ request = NoRequest
  /\ attempt = 0
  /\ lastError = NoError
  /\ timers = UnsetTimers
  /\ aborted = NoAborts
  /\ net = NoCalls
  /\ response = NoResponse
  /\ outcome = NoOutcome
  /\ attempts = 0
  /\ delays = <<>>
  /\ toasts = <<>>
  /\ wire = NoResponse
  /\ agg = IdleAgg
  /\ probe = NoProbe
  /\ screen = NoScreen
  /\ history = NoHistory(FALSE)

NextHelpers ==
  \/ ApplySortByRelevance
  \/ ApplyRelevanceCompare
  \/ \E i \in 1..MaxLinks : ApplyMatchesSearch(i)
  \/ ApplyFilteredLinks

SpecHelpers == InitHelpers /\ [][NextHelpers]_vars

(***************************************************************************)
(* The claims.                                                             *)
(***************************************************************************)
\* the toasts titled "Connection Failed" shown so far
ConnectionFailedShown == { i \in 1..Len(toasts) : toasts[i].title = "Connection Failed" }

\* fetchWithRetry of the current operation ended with every attempt failed
RetriesExhausted == pc = "done" /\ attempts > 0 /\ response = NoResponse

\* a string of blanks only
Blank(str) == \A i \in 1..Len(str) : str[i] = SP

\* no credential is configured: absent, empty or blank
NoCredential(p) == "apiToken" \notin DOMAIN p \/ Blank(p.apiToken)

\* the base64url chunks of a segment
Chunks(seg) == SelectSeq(seg, LAMBDA c : c # SP)

\* the payload (second segment) of str is the encoding of {"exp": k}
HasNumericExp(str, k) ==
  LET parts == Split(str)
  IN Len(parts) >= 2 /\ Chunks(parts[2]) = <<B64(JsonText(JObj([exp |-> JNum(k)])))>>

\* str has no second segment, or one that is not the encoding of a JSON text
Malformed(str) ==
  LET parts == Split(str)
  IN \/ Len(parts) < 2
     \/ ~ \E x \in SampleTexts : x.kind = "json" /\ Chunks(parts[2]) = <<B64(x)>>

\* C1: when every attempt of fetchWithRetry fails at the transport level it makes
\* exactly retries + 1 = 4 attempts, sleeps 300 * 2^i ms after failed attempt i
\* (300, 600, 1200), does not sleep after the last one, and then raises.
C1_BackoffSchedule ==
  /\ \A j \in 1..Len(delays) : delays[j] = 300 * 2^(j - 1)
  /\ Len(delays) <= DEFAULT_RETRIES
  /\ pc = "sleep" => Len(delays) = attempt + 1 /\ attempts = attempt + 1
  /\ pc = "inflight" => Len(delays) = attempt /\ attempts = attempt + 1
  /\ RetriesExhausted =>
       /\ attempts = DEFAULT_RETRIES + 1
       /\ attempts = 4
       /\ delays = <<300, 600, 1200>>
       /\ \A i \in Attempts : net[i] = "rejected"
       /\ outcome.kind = "throw"

C1_Witness ==
  RetriesExhausted /\ outcome.kind = "throw" /\ Len(delays) = 3

\* C2: a first success on attempt k gives exactly k attempts and k - 1 delays
\* (one delay of 300 ms when k = 2), no later attempt, no "Connection Failed"
\* toast, and fetchWithRetry returns the response of that attempt unmodified.
C2_SuccessEndsRetrying ==
  (pc \in {"respond", "done"} /\ response # NoResponse) =>
    /\ response = wire
    /\ attempts = attempt + 1
    /\ Len(delays) = attempts - 1
    /\ attempts = 2 => delays = <<300>>
    /\ \A i \in Attempts : i > attempt => net[i] = "none"
    /\ ConnectionFailedShown = {}

C2_Witness ==
  pc = "respond" /\ response.ok /\ attempts = 2 /\ net[0] = "rejected" /\ net[1] = "resolved"

\* C3: a fetch that completes with any HTTP response, 4xx and 5xx included, ends
\* fetchWithRetry with that attempt: the response is returned as it is, no
\* backoff sleep and no further attempt follow, no "Connection Failed" toast.
C3_StatusIsNotRetried ==
  \A i \in Attempts : net[i] = "resolved" =>
    /\ i = attempt
    /\ pc \in {"respond", "done"}
    /\ response = wire
    /\ response.status \in {200, 401, 500}
    /\ attempts = i + 1
    /\ Len(delays) = i
    /\ ConnectionFailedShown = {}

C3_Witness ==
  pc = "done" /\ response.status = 500 /\ attempts = 1 /\ delays = <<>> /\ toasts = <<>>

\* C4: after the last attempt failed at the transport level exactly one failure
\* toast is shown for the call; it names retries + 1 attempts and offers to open
\* the web app; the error raised is the one of the last attempt; no such toast
\* is shown while attempts remain or when a response came.
C4_FailureNotice ==
  /\ pc \in {"inflight", "sleep", "respond"} => ConnectionFailedShown = {}
  /\ response # NoResponse => ConnectionFailedShown = {}
  /\ RetriesExhausted =>
       /\ toasts = << Toast("Connection Failed",
                           <<"Could not reach Kalpa after", "4", "attempts">>,
                           [title |-> "Open Kalpa Web App", opens |-> "https://usekalpa.com"]) >>
       /\ outcome.kind = "throw"
       /\ outcome.error.serial = DEFAULT_RETRIES + 1
       /\ outcome.error.name = IF aborted[DEFAULT_RETRIES] THEN "AbortError" ELSE "TypeError"

C4_Witness ==
  RetriesExhausted /\ ~aborted[0] /\ aborted[DEFAULT_RETRIES]
  /\ outcome.error.name = "AbortError" /\ Len(toasts) = 1

\* C5: each attempt races fetch() against a timer of 5000 ms.  A timer that
\* fires does so while its call is in flight and aborts it, and the attempt
\* then fails and is retried like a transport error; a call that settles
\* clears its timer, which never fires afterwards.
C5_TimeoutRace ==
  \A i \in Attempts :
    /\ timers[i].st = "armed" =>
         net[i] = "pending" /\ timers[i].ms = 5000 /\ i = attempt /\ pc = "inflight"
    /\ net[i] = "pending" => timers[i].st \in {"armed", "fired"}
    /\ aborted[i] <=> timers[i].st = "fired"
    /\ aborted[i] => net[i] \in {"pending", "rejected"}
    /\ net[i] = "resolved" => timers[i].st = "cleared"
    /\ (aborted[i] /\ net[i] = "rejected") =>
         /\ i < DEFAULT_RETRIES => Len(delays) > i /\ delays[i + 1] = 300 * 2^i
         /\ i = DEFAULT_RETRIES => pc = "done" /\ outcome = Throw(AbortError(i + 1))
         /\ i = attempt => lastError = AbortError(i + 1)

C5_Witness ==
  /\ aborted[0] /\ net[0] = "rejected" /\ delays = <<300>>
  /\ net[1] = "resolved" /\ timers[1].st = "cleared"

\* C6: ensureValidTokenOrToast has three outcomes: with no credential (absent,
\* empty or blank) the "Missing API token" toast and null; with a credential
\* whose tokenIsExpired is true the "API token expired" toast and null; in
\* every other case the trimmed credential and no toast.
C6_GuardOutcomes ==
  probe.fn = "ensureValidTokenOrToast" =>
    IF NoCredential(prefs)
    THEN /\ probe.out = JNull
         /\ Len(probe.shown) = 1 /\ probe.shown[1].title = "Missing API token"
    ELSE IF tokenIsExpired(Trim(prefs.apiToken), probe.ms) = JBool(TRUE)
    THEN /\ probe.out = JNull
         /\ Len(probe.shown) = 1 /\ probe.shown[1].title = "API token expired"
    ELSE /\ probe.out = JStr(Trim(prefs.apiToken))
         /\ probe.shown = <<>>

C6_Witness ==
  /\ probe.fn = "ensureValidTokenOrToast" /\ ~NoCredential(prefs)
  /\ tokenIsExpired(Trim(prefs.apiToken), probe.ms) = JNull
  /\ prefs.apiToken # Trim(prefs.apiToken)
  /\ probe.out = JStr(Trim(prefs.apiToken))

\* the credential is missing or, by its exp claim, expired at time ms
Unusable(p, ms) ==
  \/ NoCredential(p)
  \/ \E k \in 0..MaxExp : HasNumericExp(Trim(p.apiToken), k) /\ k <= ms \div 1000

\* this step calls an operation of the client
CallStep ==
  \/ pc = "idle" /\ pc' # "idle"
  \/ agg'.pc # agg.pc /\ agg'.pc \in SubFetches

\* C7: with no credential configured, or one that is expired by its exp claim,
\* every operation of the client ends with the guard's toast and the error
\* "Authentication required", and issues no network attempt and no backoff.
C7_NoRequestWithoutCredential ==
  /\ [][ (CallStep /\ Unusable(prefs, clockMs)) =>
           /\ op'.name \in OpNames
           /\ pc' = "done"
           /\ outcome' = Throw(Error("Error", <<"Authentication", "required">>, 0))
           /\ attempts' = 0 /\ delays' = <<>> /\ net' = NoCalls /\ request' = NoRequest
           /\ Len(toasts') = 1
           /\ toasts'[1].title \in {"Missing API token", "API token expired"} ]_vars
  /\ [](outcome = Throw(Error("Error", <<"Authentication", "required">>, 0)) =>
           attempts = 0 /\ net = NoCalls /\ delays = <<>> /\ ConnectionFailedShown = {})

C7_Witness ==
  /\ pc = "done" /\ op.name = "saveLink" /\ attempts = 0
  /\ outcome.kind = "throw" /\ toasts = <<ExpiredTokenToast>>

\* C8: for a credential whose payload decodes to claims with a numeric exp,
\* tokenIsExpired is true iff exp <= the current Unix seconds (exp = now counts
\* as expired) and false otherwise; in every other case it is null.
C8_ExpiryBoundary ==
  probe.fn = "tokenIsExpired" =>
    IF \E k \in 0..MaxExp : HasNumericExp(probe.arg, k)
    THEN \A k \in 0..MaxExp :
           HasNumericExp(probe.arg, k) => probe.out = JBool(k <= probe.ms \div 1000)
    ELSE probe.out = JNull

C8_Witness ==
  /\ probe.fn = "tokenIsExpired" /\ HasNumericExp(probe.arg, 1)
  /\ probe.ms = 1000 /\ probe.out = JBool(TRUE)

\* C9: for every malformed credential (no "." separator, fewer than 2 segments,
\* or a second segment that is not the encoding of a JSON text) parseJwtClaims
\* returns null without raising, and ensureValidTokenOrToast returns the
\* credential all the same, so that the operation goes on to its request.
C9_MalformedIsUsable ==
  /\ (probe.fn = "parseJwtClaims" /\ Malformed(probe.arg)) => probe.out = JNull
  /\ (probe.fn = "ensureValidTokenOrToast" /\ ~NoCredential(prefs)
        /\ Malformed(Trim(prefs.apiToken))) =>
       /\ probe.out = JStr(Trim(prefs.apiToken))
       /\ probe.shown = <<>>
       /\ ~GuardRejects(probe.out)

C9_Witness ==
  /\ probe.fn = "parseJwtClaims" /\ Len(Split(probe.arg)) >= 2
  /\ Chunks(Split(probe.arg)[2]) = <<B64(RawText(<<"%junk%">>))>>
  /\ probe.out = JNull

\* C10 (as claimed): when a sub-fetch of useAllLinks raises "Authentication
\* required" the hook returns the empty list; any other error that is no
\* answer of the backend to the credential (a 401) is raised unchanged.
C10_OnlyAuthErrorsDowngraded ==
  (agg.pc = "done" /\ outcome.kind = "throw") =>
    IF outcome.error = Error("Error", <<"Authentication", "required">>, 0)
    THEN agg.outcome = Return(<<>>)
    ELSE response.status # 401 => agg.outcome = Throw(outcome.error)

\* how often x occurs in seq
Count(seq, x) == Cardinality({ i \in 1..Len(seq) : seq[i] = x })

\* the creation timestamps of a list of items
TimesOf(items) == [i \in 1..Len(items) |-> items[i]._creationTime]

\* useAllLinks ended with all of its three sub-fetches returned
AllThreeReturned == agg.pc = "done" /\ Len(agg.pages) = 3 /\ agg.outcome.kind = "return"

\* C11: when the three sub-fetches return, useAllLinks returns the links of
\* getLinks, getVideos and getCodepenLinks, each as often as it came (none
\* dropped, none deduplicated), newest first whatever the kind, links of one
\* timestamp in the order links, videos, codepens; [5,3], [4], [2,1] give
\* [5,4,3,2,1].
C11_MergedNewestFirst ==
  AllThreeReturned =>
    LET cat == agg.pages[1] \o agg.pages[2] \o agg.pages[3]
        out == agg.outcome.value
    IN /\ Len(out) = Len(cat)
       /\ \A i \in 1..Len(cat) : Count(out, cat[i]) = Count(cat, cat[i])
       /\ \A i, j \in 1..Len(out) : i < j => out[i]._creationTime >= out[j]._creationTime
       /\ \A t \in 1..5 :
            SelectSeq(out, LAMBDA x : x._creationTime = t)
              = SelectSeq(cat, LAMBDA x : x._creationTime = t)
       /\ << TimesOf(agg.pages[1]), TimesOf(agg.pages[2]), TimesOf(agg.pages[3]) >>
            = << <<5, 3>>, <<4>>, <<2, 1>> >> => TimesOf(out) = <<5, 4, 3, 2, 1>>
       /\ agg.pages = << <<Item("l3", 2)>>, <<Item("l3", 2), Item("v3", 2)>>,
                        <<Item("c1", 2), Item("c2", 1)>> >>
            => out = << Item("l3", 2), Item("l3", 2), Item("v3", 2), Item("c1", 2),
                        Item("c2", 1) >>

C11_Witness ==
  /\ AllThreeReturned
  /\ agg.pages = << <<Item("l3", 2)>>, <<Item("l3", 2), Item("v3", 2)>>,
                    <<Item("c1", 2), Item("c2", 1)>> >>
  /\ TimesOf(agg.outcome.value) = <<2, 2, 2, 2, 1>>

\* the fetch() calls that have not settled
InFlight == { i \in Attempts : net[i] = "pending" }

\* C12: useAllLinks calls getLinks, then getVideos, then getCodepenLinks, each
\* only once the one before it has returned (its retries over, no fetch() in
\* flight, no timer armed); at most one request is in flight at any time.
C12_SubFetchesInTurn ==
  /\ [][ (agg'.pc # agg.pc /\ agg'.pc \in SubFetches) =>
           /\ agg'.pc = "getLinks" => agg.pc = "idle"
           /\ agg'.pc = "getVideos" =>
                agg.pc = "getLinks" /\ pc = "done" /\ outcome.kind = "return"
           /\ agg'.pc = "getCodepenLinks" =>
                agg.pc = "getVideos" /\ pc = "done" /\ outcome.kind = "return"
           /\ InFlight = {}
           /\ \A i \in Attempts : timers[i].st # "armed"
           /\ op'.via = agg'.pc ]_vars
  /\ [](Cardinality(InFlight) <= 1)
  /\ [](agg.pc \in SubFetches => op.via = agg.pc /\ Len(agg.pages) < 3)

C12_Witness ==
  /\ agg.pc = "getCodepenLinks" /\ Len(agg.pages) = 2
  /\ pc = "inflight" /\ attempts = 2 /\ InFlight = {1}

\* an operation ended on a response whose status is not 2xx
EndedOnErrorStatus == pc = "done" /\ response # NoResponse /\ ~response.ok

\* C13 (as claimed): every operation that gets a 401 answer (query, mutation,
\* linksQuery, getUniverses, saveLink) shows the "Authentication Required"
\* toast that points at the extension preferences, and then raises.
C13_Every401IsAnnounced ==
  (EndedOnErrorStatus /\ response.status = 401) =>
    /\ outcome.kind = "throw"
    /\ toasts = << Toast("Authentication Required",
                         <<"Please update your API Token in extension preferences">>,
                         NoAction) >>

\* the message the claim names for a body: its details field, else its error
\* field, and the body text itself when it is no structured data
MessageOfBody(body) ==
  IF body.kind = "json" /\ body.val.t = "object"
  THEN IF "details" \in DOMAIN body.val.props THEN body.val.props.details.s
       ELSE IF "error" \in DOMAIN body.val.props THEN body.val.props.error.s
       ELSE <<"no message named">>
  ELSE body.s

\* the body is structured data without a details and without an error field,
\* or it is empty
NamesNoMessage(body) ==
  IF body.kind = "json"
  THEN body.val.t = "object" /\ DOMAIN body.val.props \cap {"details", "error"} = {}
  ELSE body.s = <<>>

EmptyForAuthentication ==
  /\ agg.pc = "done" /\ agg.outcome = Return(<<>>) /\ outcome.kind = "throw"
  /\ outcome.error = AuthenticationRequired \/ response.status = 401

\* C15 (as claimed): whenever useAllLinks returns the empty list because the
\* credential is missing, expired or rejected, Search Links and Recent Links
\* show "Login Required", not "No Links Found" / "No Recent Links".
C15_LoginPromptOnAuthFailure ==
  EmptyForAuthentication =>
    screen.search = "Login Required" /\ screen.recent = "Login Required"

\* the preference the client instance was built with is the current one
BuiltFromCurrent ==
  clientInstance.apiToken
    = IF "apiToken" \in DOMAIN prefs THEN JStr(prefs.apiToken) ELSE JUndefined

C17_RequestCarriesGuardedToken ==
  /\ [](request # NoRequest =>
          /\ request.headers.contentType = "application/json"
          /\ token.t = "string"
          /\ request.headers.authorization = [scheme |-> "Bearer", credential |-> token.s])
  /\ [](InFlight # {} => request # NoRequest)
  /\ [][ (CallStep /\ request' # NoRequest) =>
            /\ "apiToken" \in DOMAIN prefs
            /\ request'.headers.authorization.credential = Trim(prefs.apiToken)
            /\ token' = ensureValidTokenOrToast(prefs, clockMs).ret ]_vars

C17_Witness ==
  /\ pc = "inflight" /\ op.name = "saveLink" /\ InFlight = {0}
  /\ clientInstance.apiToken # token
  /\ clientInstance.apiToken = JStr(<<B64(RawText(<<"%junk%">>))>>)
  /\ request.headers.authorization.credential = Jwt(1)

\* the relevance tier of a link for a search text: 1 if the title is the text,
\* 2 if it begins with it, 3 if it has it somewhere, 4 otherwise (letter case
\* aside)
Tier(link, query) ==
  LET title == toLowerCase(link.title)
      q == toLowerCase(query)
  IN IF title = q THEN 1
     ELSE IF Len(q) <= Len(title) /\ \A i \in 1..Len(q) : title[i] = q[i] THEN 2
     ELSE IF \E k \in 0..(Len(title) - Len(q)) : \A i \in 1..Len(q) : title[k + i] = q[i] THEN 3
     ELSE 4

\* C18: with a search text that is not empty sortByRelevance returns the links
\* it was given ordered by tier (title equal to the text, then beginning with
\* it, then containing it, then the rest; letter case aside) and inside a tier
\* newest first; Go, Going, Foo Go Bar with "go" come out in that order
\* whatever their order and timestamps.
C18_RelevanceOrder ==
  (probe.fn = "sortByRelevance" /\ sample.query # <<>>) =>
    LET out == probe.out.items
        links == sample.links
    IN /\ Len(out) = Len(links)
       /\ \A i \in 1..Len(links) : Count(out, links[i]) = Count(links, links[i])
       /\ \A i, j \in 1..Len(out) : i < j =>
            \/ Tier(out[i], sample.query) < Tier(out[j], sample.query)
            \/ /\ Tier(out[i], sample.query) = Tier(out[j], sample.query)
               /\ out[i]._creationTime >= out[j]._creationTime
       /\ ( /\ Len(links) = 3
            /\ { links[i].title : i \in 1..3 } = { <<"G", "o">>, <<"G", "o", "i", "n", "g">>, <<"F", "o", "o", " ", "G", "o", " ", "B", "a", "r">> }
            /\ toLowerCase(sample.query) = <<"g", "o">> )
          => << out[1].title, out[2].title, out[3].title >> = << <<"G", "o">>, <<"G", "o", "i", "n", "g">>, <<"F", "o", "o", " ", "G", "o", " ", "B", "a", "r">> >>

C18_Witness ==
  /\ probe.fn = "sortByRelevance" /\ sample.query = <<"G", "O">>
  /\ Len(sample.links) = 3
  /\ << sample.links[1].title, sample.links[2].title, sample.links[3].title >>
       = << <<"F", "o", "o", " ", "G", "o", " ", "B", "a", "r">>, <<"G", "o", "i", "n", "g">>, <<"G", "o">> >>
  /\ TimesOf(sample.links) = <<3, 2, 1>>
  /\ TimesOf(probe.out.items) = <<1, 2, 3>>

\* C19: for every search text the comparator of sortByRelevance is a
\* consistent order on the links: cmp(a, b) < 0 iff cmp(b, a) > 0, a before b
\* and b before c give a before c, and cmp(a, b) = 0 only for links of one
\* tier and one creation timestamp.
C19_ComparatorConsistent ==
  probe.fn = "compare" =>
    LET cmp == probe.out.items
        links == sample.links
        n == Len(links)
    IN /\ \A i, j \in 1..n : cmp[i][j] < 0 <=> cmp[j][i] > 0
       /\ \A i, j, k \in 1..n : (cmp[i][j] < 0 /\ cmp[j][k] < 0) => cmp[i][k] < 0
       /\ \A i, j \in 1..n : cmp[i][j] = 0 =>
            /\ Tier(links[i], sample.query) = Tier(links[j], sample.query)
            /\ links[i]._creationTime = links[j]._creationTime

C19_Witness ==
  /\ probe.fn = "compare" /\ Len(sample.links) = 3
  /\ probe.out.items[1][2] = 0 /\ sample.links[1] # sample.links[2]
  /\ probe.out.items[2][3] < 0 /\ probe.out.items[1][3] < 0
  /\ Tier(sample.links[3], sample.query) = Tier(sample.links[1], sample.query)

\* the texts of a link a search text is looked for in: the words of its title,
\* its domain without a leading "www.", the names of its tags and of its
\* universes, its link type, its title, its URL and its summary
SearchedTexts(link) ==
  LET has(f) == f \in DOMAIN link
      domain == IF Len(link.domain) >= 4 /\ SubSeq(link.domain, 1, 4) = <<"w", "w", "w", ".">>
                THEN SubSeq(link.domain, 5, Len(link.domain)) ELSE link.domain
  IN Range(SplitBlanks(link.title, <<>>)) \cup { domain, link.title, link.url }
     \cup (IF has("tags") THEN { link.tags[i].name : i \in 1..Len(link.tags) } ELSE {})
     \cup (IF has("universes")
           THEN { link.universes[i].name : i \in 1..Len(link.universes) } ELSE {})
     \cup (IF has("linkType") THEN { link.linkType } ELSE {})
     \cup (IF has("summary_preview") THEN { link.summary_preview } ELSE {})

NewestFirstOf(out, links) ==
  /\ Len(out) = Len(links)
  /\ \A i \in 1..Len(links) : Count(out, links[i]) = Count(links, links[i])
  /\ \A i, j \in 1..Len(out) : i < j => out[i]._creationTime >= out[j]._creationTime
  /\ \A t \in 1..3 :
       SelectSeq(out, LAMBDA x : x._creationTime = t)
         = SelectSeq(links, LAMBDA x : x._creationTime = t)

C23_EveryErrorIsReported ==
  (agg.pc = "done" /\ outcome.kind = "throw") =>
    \/ toasts # <<>>
    \/ agg.outcome = Throw(outcome.error)

\* C24: the Login command shows "Connect to Kalpa" only when no token is
\* configured; with a token configured it shows the connected view when
\* ensureValidTokenOrToast accepts the token and the expired view when it
\* rejects it.
C24_LoginViewAgreesWithGuard ==
  probe.fn = "LoginCommand" =>
    /\ probe.out = JStr(<<"Connect to Kalpa">>) <=> NoCredential(prefs)
    /\ ~NoCredential(prefs) =>
         probe.out = IF Truthy(ensureValidTokenOrToast(prefs, probe.ms).ret)
                     THEN JStr(<<"You're connected to Kalpa">>)
                     ELSE JStr(<<"Your token has expired">>)

\* the titles of the toasts shown
Titles(shown) == [i \in 1..Len(shown) |-> shown[i].title]

\* the script of a browser answered with a URL and a title
TabObtained(app) ==
  app.bundleId \in ScriptedBrowsers /\ ~app.raises /\ Len(app.parts) = 2

\* C25: Quick Save without a configured token stops after "Login Required",
\* looking up nothing and saving nothing.  Otherwise it takes URL and title
\* from the browser tab when there is one and reads the clipboard only when
\* there is none; when neither yields an http(s) URL it shows "No URL Found"
\* and never calls saveLink; else it calls saveLink exactly once, and an error
\* ends in a single "Failed to Save" toast.
C25_QuickSaveFlow ==
  probe.fn = "QuickSaveCommand" =>
    LET app == probe.arg[1]
        clipboardText == probe.arg[2]
        calls == probe.out.calls
        shown == Titles(probe.shown)
        yields == IF TabObtained(app) THEN app.parts[1].protocol \in {"http:", "https:"}
                  ELSE clipboardText.protocol \in {"http:", "https:"}
    IN IF NoCredential(prefs)
       THEN calls = <<>> /\ shown = <<"Login Required">>
       ELSE /\ Count(calls, "getCurrentBrowserTab") = 1
            /\ Count(calls, "getUrlFromClipboard") = IF TabObtained(app) THEN 0 ELSE 1
            /\ TabObtained(app) /\ probe.out.saved # <<>> =>
                 probe.out.saved[1].url = app.parts[1]
            /\ IF ~yields
               THEN Count(calls, "saveLink") = 0 /\ shown = <<"No URL Found">>
               ELSE /\ Count(calls, "saveLink") = 1
                    /\ Count(shown, "Failed to Save") <= 1
                    /\ Count(shown, "Failed to Save") = 1 <=> Count(shown, "Saved to Kalpa") = 0

\* the attempts of the running call that the backend applied
Applied == { i \in Attempts : history.applied[i] }

\* C26: one call of a state-changing operation sends its request at most
\* retries + 1 = 4 times, and again only after an attempt that ended in a
\* timeout or a transport error; the backend may have applied an attempt the
\* client gave up on, so one call can be applied more than once (the witness):
\* nothing in the client bounds the applications by one.
C26_WriteSentAgainAfterFailure ==
  Writes(op) =>
    /\ attempts <= DEFAULT_RETRIES + 1
    /\ history.sent = attempts
    /\ \A i \in Attempts : i < attempt /\ attempts > 0 => net[i] = "rejected"
    /\ \A i \in Applied : i < attempts
    /\ Cardinality(Applied) <= attempts

C26_Witness ==
  /\ Writes(op) /\ pc = "done" /\ outcome.kind = "return"
  /\ aborted[0] /\ Applied = {0, 1}

\* the sub-fetches in the order of the hook
StageOrder == <<"getLinks", "getVideos", "getCodepenLinks">>

\* C27: useAllLinks is all or nothing.  It returns the merge of all three
\* pages, or, when sub-fetch k raised, no later sub-fetch was called, the
\* pages fetched before are dropped, the result is the empty list or the
\* error, and the client has shown at most one failure toast during the call:
\* a token toast or "Connection Failed".
C27_AllOrNothing ==
  /\ agg.pc # "idle" =>
       /\ Len(toasts) <= 1
       /\ \A i \in 1..Len(toasts) :
            toasts[i].title \in {"Missing API token", "API token expired", "Connection Failed"}
  /\ agg.pc = "done" =>
       IF outcome.kind = "return"
       THEN /\ Len(agg.pages) = 3 /\ agg.outcome.kind = "return"
            /\ Len(agg.outcome.value) = Len(Concat(agg.pages))
            /\ toasts = <<>>
       ELSE /\ Len(agg.pages) < 3
            /\ op.via = StageOrder[Len(agg.pages) + 1]
            /\ agg.outcome \in {Return(<<>>), Throw(outcome.error)}

C27_Witness ==
  /\ agg.pc = "done" /\ Len(agg.pages) = 2 /\ Len(Concat(agg.pages)) = 3
  /\ agg.outcome = Return(<<>>)
  /\ Titles(toasts) = <<"API token expired">>

\* C28: the token guard runs once per operation, when the operation is
\* called and before its first attempt, with the preference and the time of
\* that moment; it is not asked again between the attempts, which all carry
\* the Authorization header built then, even when the credential expires
\* during a backoff sleep.  Each sub-fetch of useAllLinks is an operation of
\* its own: a credential that expires between two of them makes the guard
\* reject the later one before any request.
C28_GuardOncePerOperation ==
  /\ [][ CallStep =>
            /\ token' = ensureValidTokenOrToast(prefs, clockMs).ret
            /\ toasts' = (IF agg'.pc \in SubFetches /\ agg.pc \in SubFetches
                          THEN toasts ELSE <<>>)
                         \o ensureValidTokenOrToast(prefs, clockMs).shown
            /\ IF Truthy(token') THEN attempts' = 1 /\ pc' = "inflight"
               ELSE attempts' = 0 /\ pc' = "done"
                    /\ outcome' = Throw(AuthenticationRequired) ]_vars
  /\ [][ (~CallStep /\ pc # "idle" /\ pc' # "idle") =>
            /\ token' = token /\ request' = request
            /\ \A i \in 1..Len(toasts') :
                 toasts'[i].title \in {"Missing API token", "API token expired"} =>
                   i <= Len(toasts) /\ toasts[i] = toasts'[i] ]_vars
  /\ [](attempts > 0 =>
          /\ token.t = "string"
          /\ request.headers.authorization = [scheme |-> "Bearer", credential |-> token.s])

C28_Witness ==
  /\ agg.pc = "getVideos" /\ pc = "inflight" /\ attempt = 2 /\ net[2] = "pending"
  /\ tokenIsExpired(token.s, clockMs) = JBool(TRUE)
  /\ request.headers.authorization.credential = token.s

C30_OptionsPassedToSubFetches ==
  probe.fn = "useAllLinks" =>
    LET opts == probe.arg[1]
        sent == probe.out
        id == GetProp(opts, "universeId")
        size == GetProp(opts, "numItems")
    IN /\ \A via \in SubFetches :
            /\ "numItems" \in DOMAIN sent[via]
            /\ sent[via].numItems = IF size \in {JUndefined, JNum(0)} THEN JNum(100) ELSE size
            /\ IF id \in {JUndefined, JStr(<<>>)}
               THEN "universeId" \notin DOMAIN sent[via]
               ELSE "universeId" \in DOMAIN sent[via] /\ sent[via].universeId = id
            /\ "tagId" \notin DOMAIN sent[via]
       /\ \A via \in {"getLinks", "getVideos"} :
            /\ {"hideRead", "hideArchived"} \subseteq DOMAIN sent[via]
            /\ sent[via].hideRead = JBool(GetProp(opts, "hideRead") = JBool(TRUE))
            /\ sent[via].hideArchived = JBool(GetProp(opts, "hideArchived") = JBool(TRUE))
       /\ DOMAIN sent.getCodepenLinks \cap {"hideRead", "hideArchived"} = {}

C30_Witness ==
  /\ probe.fn = "useAllLinks"
  /\ probe.arg[1] = JObj([ universeId |-> JStr(<<"u1">>), tagId |-> JStr(<<"t1">>),
                           hideRead |-> JBool(TRUE), hideArchived |-> JBool(TRUE),
                           numItems |-> JNum(0) ])
  /\ probe.out.getCodepenLinks = [ numItems |-> JNum(100), linkType |-> JStr(<<"codepen">>),
                                   universeId |-> JStr(<<"u1">>) ]
  /\ probe.out.getLinks = [ universeId |-> JStr(<<"u1">>), hideRead |-> JBool(TRUE),
                            hideArchived |-> JBool(TRUE), numItems |-> JNum(100) ]

====
